---- MODULE Spec2Model ----
(***************************************************************************)
(* Fraud-Dashboard-Template, src/app.py: the synthetic ledger produced by  *)
(* generate_fraud_data and the module-level aggregates computed from it.   *)
(*                                                                         *)
(* Numbers are fixed-point integers:                                       *)
(*   amounts       in cents (1/AmountScale dollar) once rounded,           *)
(*   risk scores   in 1/ScoreScale once rounded,                           *)
(*   raw draws     carry Sub further sub-units, so that the rounding       *)
(*                 (.round(2), .round(3)) has something to round,          *)
(*   instants      in ticks, TicksPerDay ticks to a calendar day.          *)
(* A float value that results from a division is the pair [num, den];      *)
(* den = 0 is the IEEE result of a division by zero (NaN when num = 0).    *)
(***************************************************************************)
EXTENDS Integers, Sequences, FiniteSets

(* ---------------------------------------------------------------- bounds *)
MaxN == 3
MaxNScore == 1
MaxNLabel == 1
MaxNTop == 11
MaxNDaily == 33
MaxNRuns == 2
MaxRuns == 2
MaxSkew == 1
Sub == 10
TicksPerDay == 4

(* ------------------------------------------------------ program constants *)
Seed == 42
WindowDays == 30
AmountScale == 100
ScoreScale == 1000
TopK == 10

Merchants == <<"AMAZON", "GOOGLE", "APPLE", "NETFLIX", "UBER", "UNKNOWN", "PAYPAL">>
MerchantP == <<30, 20, 15, 10, 10, 5, 10>>
Countries == <<"US", "UK", "DE", "FR", "IN", "BR">>
TableColumns == <<"date", "transaction_id", "amount", "merchant", "risk_score", "is_fraud">>

(* raw units per 1.0 of a uniform draw, per dollar of a log-normal draw *)
U == ScoreScale * Sub
Mill == AmountScale * Sub
Window == WindowDays * TicksPerDay

(* --------------------------------------------------------------- helpers *)
Min(a, b) == IF a <= b THEN a ELSE b

RECURSIVE SumSeq(_)
SumSeq(s) == IF s = <<>> THEN 0 ELSE Head(s) + SumSeq(Tail(s))

(* numpy's round: to the nearest multiple of `unit`, halves to the even one *)
RoundHalfEven(x, unit) ==
    LET q == x \div unit
        r == x % unit
    IN  IF 2 * r < unit THEN q
        ELSE IF 2 * r > unit THEN q + 1
        ELSE IF q % 2 = 0 THEN q ELSE q + 1

(* round(a / b) for b > 0, halves to even *)
RoundDiv(a, b) ==
    LET q == a \div b
        r == a % b
    IN  IF 2 * r < b THEN q
        ELSE IF 2 * r > b THEN q + 1
        ELSE IF q % 2 = 0 THEN q ELSE q + 1

(* float division as numpy evaluates it: x/0 is inf or nan, never a fault *)
NaN == [num |-> 0, den |-> 0]
FDiv(a, b) == IF b = 0 THEN [num |-> IF a = 0 THEN 0 ELSE 1, den |-> 0]
              ELSE [num |-> a, den |-> b]
FMul(f, k) == IF f.den = 0 THEN f ELSE [num |-> f.num * k, den |-> f.den]
IsNaN(f) == f.den = 0 /\ f.num = 0

(* f"{i:08d}": the decimal digits of i, zero-padded on the left to width w *)
RECURSIVE ZeroPad(_, _)
ZeroPad(i, w) == IF w = 0 THEN <<>> ELSE Append(ZeroPad(i \div 10, w - 1), i % 10)

RECURSIVE DigitsValue(_)
DigitsValue(d) == IF d = <<>> THEN 0
                  ELSE 10 * DigitsValue(SubSeq(d, 1, Len(d) - 1)) + d[Len(d)]

(* np.random.choice(a, p=p): the first entry whose cumulative weight exceeds u *)
RECURSIVE ChoiceP(_, _, _)
ChoiceP(a, p, u) == IF Len(a) = 1 \/ u < Head(p) THEN Head(a)
                    ELSE ChoiceP(Tail(a), Tail(p), u - Head(p))

(* np.random.choice(a): uniform, by index *)
Choice(a, k) == a[k + 1]

VARIABLES
    pc,                 \* position in the module-level script
    n,                  \* the argument of generate_fraud_data
    clock,              \* the wall clock datetime.now() reads
    entropy,            \* the stream the global generator yields when never seeded
    mt,                 \* the stream the generator yields once seeded with Seed
    df,                 \* the ledger
    total_amount, total_transactions, fraud_transactions, fraud_amount, fraud_rate,
    daily_fraud, fig_trend, fig_dist,
    avg_transaction, table_data,
    runs                \* what each process run so far generated

vars == <<pc, n, clock, entropy, mt, df, total_amount, total_transactions,
          fraud_transactions, fraud_amount, fraud_rate, daily_fraud, fig_trend,
          fig_dist, avg_transaction, table_data, runs>>

aggregates == <<total_amount, total_transactions, fraud_transactions, fraud_amount,
                fraud_rate, daily_fraud, fig_trend, fig_dist, avg_transaction,
                table_data>>

(* ------------------------------------------------------------ generation *)
(* What the generator can yield for each call of generate_fraud_data. *)
LognormalSupport == {z \in Nat : z > 0}
MerchantSupport == 0 .. SumSeq(MerchantP) - 1
CountrySupport == 0 .. Len(Countries) - 1
RandintSupport == 1000 .. 9998
RandomSupport == 0 .. U - 1
UniformSupport(lo, hi) == lo .. hi - 1

(* one record's share of the stream; the k-th call yields the k-th column *)
Row(z, mu, ck, uid, r, uh, ul) ==
    [z |-> z, mu |-> mu, ck |-> ck, uid |-> uid, r |-> r, uh |-> uh, ul |-> ul]

Columns(rows) ==
    [lognormal  |-> [i \in DOMAIN rows |-> rows[i].z],
     merchant   |-> [i \in DOMAIN rows |-> rows[i].mu],
     country    |-> [i \in DOMAIN rows |-> rows[i].ck],
     randint    |-> [i \in DOMAIN rows |-> rows[i].uid],
     random     |-> [i \in DOMAIN rows |-> rows[i].r],
     uniform_hi |-> [i \in DOMAIN rows |-> rows[i].uh],
     uniform_lo |-> [i \in DOMAIN rows |-> rows[i].ul]]

(* np.random.seed(seed): from here on the stream is a function of the seed *)
np_random_unseeded(seed) == entropy
np_random_seed(seed) == mt

(* pd.date_range(start, end, periods): np.linspace over the integer instants *)
date_range(start, end, periods) ==
    [i \in 1 .. periods |->
        IF periods = 1 THEN start
        ELSE start + ((i - 1) * (end - start)) \div (periods - 1)]

between_exclusive(x, lo, hi) == lo < x /\ x < hi
between(x, lo, hi) == lo <= x /\ x <= hi

fraud_conditions(amount, merchant, country) ==
    \/ amount > 10000 * AmountScale
    \/ merchant = "UNKNOWN"
    \/ (between(amount, 5000 * AmountScale, 10000 * AmountScale)
        /\ country \in {"IN", "BR"})

bernoulli(r) == 10 * r > 3 * U

risk_score_swapped(is_fraud, uh, ul) == RoundHalfEven(IF is_fraud THEN ul ELSE uh, Sub)
risk_score_of(is_fraud, uh, ul) == RoundHalfEven(IF is_fraud THEN uh ELSE ul, Sub)

date_of(ts) == ts \div TicksPerDay

generate_fraud_data(nn, now1, now2) ==
    LET rng    == np_random_seed(Seed)
        dates  == date_range(now1 - Window, now2, nn)
        amount == [i \in 1 .. nn |-> RoundHalfEven(rng.lognormal[i], Sub)]
        merch  == [i \in 1 .. nn |-> ChoiceP(Merchants, MerchantP, rng.merchant[i])]
        ctry   == [i \in 1 .. nn |-> Choice(Countries, rng.country[i])]
        fraud  == [i \in 1 .. nn |->
                     fraud_conditions(amount[i], merch[i], ctry[i])
                     /\ bernoulli(rng.random[i])]
    IN  [i \in 1 .. nn |->
            [transaction_id |-> [prefix |-> "TX", digits |-> ZeroPad(i - 1, 8)],
             date           |-> dates[i],
             amount         |-> amount[i],
             merchant       |-> merch[i],
             country        |-> ctry[i],
             user_id        |-> [prefix |-> "USER", number |-> rng.randint[i]],
             is_fraud       |-> fraud[i],
             risk_score     |-> risk_score_of(fraud[i], rng.uniform_hi[i],
                                              rng.uniform_lo[i])]]

(* line 47, df = generate_fraud_data(n): datetime.now() is read twice, the   *)
(* clock moving on by d in between; a negative n makes pd.date_range raise.  *)
Generate ==
    /\ pc = "generate"
    /\ \E d \in 0 .. MaxSkew :
        /\ clock' = clock + d
        /\ IF n < 0
           THEN /\ pc' = "ValueError"
                /\ UNCHANGED <<df, runs>>
           ELSE /\ df' = generate_fraud_data(n, clock, clock + d)
                /\ runs' = Append(runs, [n |-> n, now1 |-> clock, now2 |-> clock + d,
                                         df |-> df'])
                /\ pc' = "metrics"
    /\ UNCHANGED <<n, entropy, mt, aggregates>>

(* ----------------------------------------------------------- aggregation *)
Amounts(frame) == [i \in DOMAIN frame |-> frame[i].amount]

(* frame[mask]["amount"]: the rows the mask keeps, each under its index label *)
RECURSIVE MaskAmounts(_, _, _)
MaskAmounts(frame, keep, i) ==
    IF i > Len(frame) THEN <<>>
    ELSE IF frame[i].is_fraud = keep
         THEN <<[index |-> i - 1, amount |-> frame[i].amount]>>
              \o MaskAmounts(frame, keep, i + 1)
         ELSE MaskAmounts(frame, keep, i + 1)

SeqAmounts(series) == [i \in DOMAIN series |-> series[i].amount]

(* lines 50-54 *)
Metrics ==
    /\ pc = "metrics"
    /\ total_amount' = SumSeq(Amounts(df))
    /\ total_transactions' = Len(df)
    /\ fraud_transactions' = Cardinality({i \in DOMAIN df : df[i].is_fraud})
    /\ fraud_amount' = SumSeq(SeqAmounts(MaskAmounts(df, TRUE, 1)))
    /\ fraud_rate' = FMul(FDiv(fraud_transactions', total_transactions'), 100)
    /\ pc' = "daily"
    /\ UNCHANGED <<n, clock, entropy, mt, df, daily_fraud, fig_trend, fig_dist,
                   avg_transaction, table_data, runs>>

(* groupby(...): the group keys, ascending *)
RECURSIVE SortedKeys(_)
SortedKeys(S) ==
    IF S = {} THEN <<>>
    ELSE LET m == CHOOSE x \in S : \A y \in S : x <= y
         IN  <<m>> \o SortedKeys(S \ {m})

group(frame, d) == {i \in DOMAIN frame : date_of(frame[i].date) = d}
agg_count_cumulative(frame, d) ==
    Cardinality({i \in DOMAIN frame : date_of(frame[i].date) <= d})
agg_count(frame, d) == Cardinality(group(frame, d))
agg_sum(frame, d) == Cardinality({i \in group(frame, d) : frame[i].is_fraud})

(* lines 57-58 *)
DailyFraud ==
    /\ pc = "daily"
    /\ LET keys == SortedKeys({date_of(df[i].date) : i \in DOMAIN df})
       IN  daily_fraud' =
             [k \in DOMAIN keys |->
                [date           |-> keys[k],
                 transaction_id |-> agg_count(df, keys[k]),
                 is_fraud       |-> agg_sum(df, keys[k]),
                 fraud_rate     |-> RoundDiv(agg_sum(df, keys[k]) * 100 * 100,
                                             agg_count(df, keys[k]))]]
    /\ pc' = "trend"
    /\ UNCHANGED <<n, clock, entropy, mt, df, total_amount, total_transactions,
                   fraud_transactions, fraud_amount, fraud_rate, fig_trend, fig_dist,
                   avg_transaction, table_data, runs>>

(* lines 60-62 *)
Trend ==
    /\ pc = "trend"
    /\ fig_trend' = [x |-> [k \in DOMAIN daily_fraud |-> daily_fraud[k].date],
                     y |-> [k \in DOMAIN daily_fraud |-> daily_fraud[k].fraud_rate]]
    /\ pc' = "dist"
    /\ UNCHANGED <<n, clock, entropy, mt, df, total_amount, total_transactions,
                   fraud_transactions, fraud_amount, fraud_rate, daily_fraud, fig_dist,
                   avg_transaction, table_data, runs>>

(* lines 64-66 *)
DistLegitimateUnmasked ==
    /\ pc = "dist"
    /\ fig_dist' = [Legitimate |-> [i \in DOMAIN df |->
                                      [index |-> i - 1, amount |-> df[i].amount]],
                    Fraudulent |-> MaskAmounts(df, TRUE, 1)]
    /\ pc' = "layout"
    /\ UNCHANGED <<n, clock, entropy, mt, df, total_amount, total_transactions,
                   fraud_transactions, fraud_amount, fraud_rate, daily_fraud, fig_trend,
                   avg_transaction, table_data, runs>>

Dist ==
    /\ pc = "dist"
    /\ fig_dist' = [Legitimate |-> MaskAmounts(df, FALSE, 1),
                    Fraudulent |-> MaskAmounts(df, TRUE, 1)]
    /\ pc' = "layout"
    /\ UNCHANGED <<n, clock, entropy, mt, df, total_amount, total_transactions,
                   fraud_transactions, fraud_amount, fraud_rate, daily_fraud, fig_trend,
                   avg_transaction, table_data, runs>>

(* Series.mean(): NaN for an empty column *)
mean(xs) == FDiv(SumSeq(xs), Len(xs))

(* DataFrame.nlargest(k, "risk_score"), keep="first": the k-th largest value, *)
(* the rows at or above it, a stable (merge) sort of those, the first k.      *)
precedes_strict(a, b) == a > b
precedes(a, b) == a >= b

RECURSIVE Insert(_, _, _)
Insert(sorted, i, frame) ==
    IF sorted = <<>> THEN <<i>>
    ELSE IF precedes(frame[Head(sorted)].risk_score, frame[i].risk_score)
         THEN <<Head(sorted)>> \o Insert(Tail(sorted), i, frame)
         ELSE <<i>> \o sorted

RECURSIVE ArgSort(_, _)
ArgSort(ns, frame) ==
    IF ns = <<>> THEN <<>>
    ELSE Insert(ArgSort(SubSeq(ns, 1, Len(ns) - 1), frame), ns[Len(ns)], frame)

kth_largest(frame, m) ==
    CHOOSE v \in {frame[i].risk_score : i \in DOMAIN frame} :
        /\ Cardinality({i \in DOMAIN frame : frame[i].risk_score > v}) < m
        /\ Cardinality({i \in DOMAIN frame : frame[i].risk_score >= v}) >= m

RECURSIVE AtLeast(_, _, _)
AtLeast(frame, v, i) ==
    IF i > Len(frame) THEN <<>>
    ELSE IF frame[i].risk_score >= v THEN <<i>> \o AtLeast(frame, v, i + 1)
         ELSE AtLeast(frame, v, i + 1)

nlargest(frame, k) ==
    LET m == Min(k, Len(frame))
    IN  IF m <= 0 THEN <<>>
        ELSE LET inds == ArgSort(AtLeast(frame, kth_largest(frame, m), 1), frame)
             IN  [j \in 1 .. m |-> frame[inds[j]]]

(* lines 69-94: the layout evaluates the mean (line 79) and the table (line 88) *)
LayoutSortsInPlace ==
    /\ pc = "layout"
    /\ avg_transaction' = mean(Amounts(df))
    /\ df' = nlargest(df, Len(df))
    /\ table_data' = SubSeq(df', 1, Min(TopK, Len(df)))
    /\ pc' = "serving"
    /\ UNCHANGED <<n, clock, entropy, mt, total_amount, total_transactions,
                   fraud_transactions, fraud_amount, fraud_rate, daily_fraud, fig_trend,
                   fig_dist, runs>>

Layout ==
    /\ pc = "layout"
    /\ avg_transaction' = mean(Amounts(df))
    /\ table_data' = nlargest(df, TopK)
    /\ pc' = "serving"
    /\ UNCHANGED <<n, clock, entropy, mt, df, total_amount, total_transactions,
                   fraud_transactions, fraud_amount, fraud_rate, daily_fraud, fig_trend,
                   fig_dist, runs>>

(* ---------------------------------------------------------- process runs *)
Unset == [num |-> 0, den |-> 1]

Fresh ==
    /\ df = <<>>
    /\ total_amount = 0
    /\ total_transactions = 0
    /\ fraud_transactions = 0
    /\ fraud_amount = 0
    /\ fraud_rate = Unset
    /\ daily_fraud = <<>>
    /\ fig_trend = [x |-> <<>>, y |-> <<>>]
    /\ fig_dist = [Legitimate |-> <<>>, Fraudulent |-> <<>>]
    /\ avg_transaction = Unset
    /\ table_data = <<>>

Size(k) == IF k < 0 THEN 0 ELSE k

(* the streams an unseeded generator may yield: one row repeated *)
EntropyRows == {Row(120 * Mill, 0, 0, 1000, U \div 2, (8 * U) \div 10, U \div 10),
                Row(20000 * Mill, 85, 4, 4321, U \div 2, (9 * U) \div 10, (2 * U) \div 10)}

EntropyStreams(k) == {Columns([i \in 1 .. Size(k) |-> row]) : row \in EntropyRows}

(* the process ends and is started again, later, with the same argument *)
Restart ==
    /\ pc = "serving"
    /\ Len(runs) < MaxRuns
    /\ pc' = "generate"
    /\ \E d \in 0 .. MaxSkew : clock' = clock + d
    /\ entropy' \in EntropyStreams(n)
    /\ df' = <<>>
    /\ total_amount' = 0
    /\ total_transactions' = 0
    /\ fraud_transactions' = 0
    /\ fraud_amount' = 0
    /\ fraud_rate' = Unset
    /\ daily_fraud' = <<>>
    /\ fig_trend' = [x |-> <<>>, y |-> <<>>]
    /\ fig_dist' = [Legitimate |-> <<>>, Fraudulent |-> <<>>]
    /\ avg_transaction' = Unset
    /\ table_data' = <<>>
    /\ UNCHANGED <<n, mt, runs>>

InitWith(NSet, RowSet, ClockSet, EntropySet) ==
    /\ pc = "generate"
    /\ n \in NSet
    /\ clock \in ClockSet
    /\ mt \in {Columns(rows) : rows \in [1 .. Size(n) -> RowSet]}
    /\ entropy \in {Columns([i \in 1 .. Size(n) |-> row]) : row \in EntropySet}
    /\ Fresh
    /\ runs = <<>>

Next == Generate \/ Metrics \/ DailyFraud \/ Trend \/ Dist \/ Layout

NextRuns == Next \/ Restart

(* sample draws *)
Pass == (3 * U) \div 10 + 1
Fail == (3 * U) \div 10
OneEntropy == {Row(120 * Mill, 0, 0, 1000, U \div 2, (8 * U) \div 10, U \div 10)}

LegitRow == Row(120 * Mill, 0, 0, 1000, Pass, (7 * U) \div 10, (3 * U) \div 10)
FlaggedRow == Row(120 * Mill, 85, 0, 1234, Pass, (9 * U) \div 10, U \div 10)
UnflaggedRow == Row(20000 * Mill, 0, 4, 9998, Fail, (8 * U) \div 10, (6 * U) \div 10 - 1)
MidRow == Row(7500 * Mill + 4, 30, 5, 5555, U - 1, U - 1, 0)

(* the whole pipeline on small ledgers of mixed records, n = -1 and 0 included *)
Init == InitWith(-1 .. MaxN, {LegitRow, FlaggedRow, UnflaggedRow, MidRow},
                 Window .. Window + 1, OneEntropy)
Spec == Init /\ [][Next]_vars

(* every draw of the seeded stream lies in the support of its distribution *)
StreamOK ==
    /\ \A i \in DOMAIN mt.lognormal : mt.lognormal[i] \in LognormalSupport
    /\ \A i \in DOMAIN mt.merchant : mt.merchant[i] \in MerchantSupport
    /\ \A i \in DOMAIN mt.country : mt.country[i] \in CountrySupport
    /\ \A i \in DOMAIN mt.randint : mt.randint[i] \in RandintSupport
    /\ \A i \in DOMAIN mt.random : mt.random[i] \in RandomSupport
    /\ \A i \in DOMAIN mt.uniform_hi :
          mt.uniform_hi[i] \in UniformSupport((7 * U) \div 10, U)
    /\ \A i \in DOMAIN mt.uniform_lo :
          mt.uniform_lo[i] \in UniformSupport(0, (6 * U) \div 10)

(* score draws at the ends of both bands and at the rounding halves *)
UhSamples == {(7 * U) \div 10, (7 * U) \div 10 + Sub \div 2, U - Sub \div 2, U - 1}
UlSamples == {0, Sub \div 2, (6 * U) \div 10 - Sub \div 2, (6 * U) \div 10 - 1}
ScoreRows == {Row(120 * Mill, mu, 0, 1000, r, uh, ul) :
                 mu \in {0, 85}, r \in {Fail, Pass}, uh \in UhSamples, ul \in UlSamples}
InitScore == InitWith(0 .. MaxNScore, ScoreRows, {Window}, OneEntropy)
SpecScore == InitScore /\ [][Next]_vars

(* amounts around both thresholds, before rounding; merchants, countries, draws *)
ZSamples == {120 * Mill,
             5000 * Mill - Sub + Sub \div 2 - 1,
             5000 * Mill - Sub + Sub \div 2,
             5000 * Mill,
             10000 * Mill + Sub \div 2,
             10000 * Mill + Sub \div 2 + 1,
             20000 * Mill}
LabelRows == {Row(z, mu, ck, 1000, r, (9 * U) \div 10, U \div 10) :
                 z \in ZSamples, mu \in {0, 85}, ck \in {0, 4, 5}, r \in {Fail, Pass}}
InitLabel == InitWith(0 .. MaxNLabel, LabelRows, {Window}, OneEntropy)
SpecLabel == InitLabel /\ [][Next]_vars

(* ledgers longer than TopK, with many equal scores *)
InitTop == InitWith(0 .. MaxNTop, {LegitRow, FlaggedRow}, {Window}, OneEntropy)
SpecTop == InitTop /\ [][Next]_vars

(* ledgers long enough for several records to fall on one calendar date *)
InitDaily ==
    /\ pc = "generate"
    /\ n \in 0 .. MaxNDaily
    /\ clock \in Window .. Window + TicksPerDay - 1
    /\ \E m \in 1 .. 3 :
          mt = Columns([i \in 1 .. n |-> IF i % m = 0 THEN FlaggedRow ELSE LegitRow])
    /\ entropy \in {Columns([i \in 1 .. n |-> row]) : row \in OneEntropy}
    /\ Fresh
    /\ runs = <<>>
SpecDaily == InitDaily /\ [][Next]_vars

(* the process run several times with the same argument *)
InitRuns == InitWith(0 .. MaxNRuns, {LegitRow, MidRow}, {Window}, EntropyRows)
SpecRuns == InitRuns /\ [][NextRuns]_vars

(* ------------------------------------------------------------ properties *)
Generated == pc \notin {"generate", "ValueError"}
Last(s) == s[Len(s)]
Ordinal(row) == DigitsValue(row.transaction_id.digits)

WithoutDate(frame) ==
    [i \in DOMAIN frame |->
        [f \in (DOMAIN frame[i]) \ {"date"} |-> frame[i][f]]]

C2_ScoreBands ==
    \A i \in DOMAIN df :
        /\ df[i].is_fraud =>
              10 * df[i].risk_score >= 7 * ScoreScale /\ df[i].risk_score <= ScoreScale
        /\ ~df[i].is_fraud =>
              df[i].risk_score >= 0 /\ 10 * df[i].risk_score <= 6 * ScoreScale
        /\ ~(10 * df[i].risk_score > 6 * ScoreScale
             /\ 10 * df[i].risk_score < 7 * ScoreScale)
        /\ df[i].risk_score \in 0 .. ScoreScale

C2_Witness ==
    /\ Generated
    /\ \E i \in DOMAIN df :
          /\ df[i].is_fraud
          /\ df[i].risk_score = ScoreScale
          /\ mt.uniform_hi[i] < U

(* C3: a record is flagged exactly when it is eligible (amount > 10000, or   *)
(* merchant UNKNOWN, or 5000 <= amount <= 10000 in IN or BR) and its draw    *)
(* exceeds 0.3.                                                              *)
C3_Eligible(row) ==
    \/ row.amount > 10000 * AmountScale
    \/ row.merchant = "UNKNOWN"
    \/ /\ row.amount >= 5000 * AmountScale
       /\ row.amount <= 10000 * AmountScale
       /\ row.country = "IN" \/ row.country = "BR"

C3_LabelRule ==
    \A i \in DOMAIN df :
        df[i].is_fraud <=> (C3_Eligible(df[i]) /\ 10 * mt.random[i] > 3 * U)

C3_Witness ==
    /\ Generated
    /\ \E i \in DOMAIN df :
          /\ df[i].amount = 10000 * AmountScale
          /\ df[i].merchant # "UNKNOWN"
          /\ df[i].country = "BR"
          /\ ~df[i].is_fraud

(* C4: a size n <= 0 is rejected before anything is generated: no ledger is  *)
(* returned and no aggregation runs.                                         *)
C4_NonPositiveRejected ==
    n <= 0 => pc \in {"generate", "ValueError"} /\ runs = <<>>

(* C5: on an empty ledger fraud_rate and the mean amount are a defined       *)
(* value, never a not-a-number.                                              *)
C5_EmptyLedgerDefined ==
    /\ (pc \in {"daily", "trend", "dist", "layout", "serving"}
        /\ total_transactions = 0) => fraud_rate.den # 0
    /\ (pc = "serving" /\ total_transactions = 0) => avg_transaction.den # 0

(* C6: the ranked subset has min(TopK, N) rows of the ledger, in descending  *)
(* risk_score order, each at least as high as every excluded record, and     *)
(* among equal scores the earlier record of the ledger comes, and is taken,  *)
(* first.                                                                    *)
C6_Shown == {Ordinal(table_data[a]) + 1 : a \in DOMAIN table_data}

C6_TopK ==
    pc = "serving" =>
        /\ Len(table_data) = Min(TopK, Len(df))
        /\ \A a \in DOMAIN table_data :
              /\ Ordinal(table_data[a]) + 1 \in DOMAIN df
              /\ table_data[a] = df[Ordinal(table_data[a]) + 1]
        /\ \A a, b \in DOMAIN table_data :
              a < b =>
                 /\ table_data[a].risk_score >= table_data[b].risk_score
                 /\ (table_data[a].risk_score = table_data[b].risk_score
                       => Ordinal(table_data[a]) < Ordinal(table_data[b]))
        /\ \A a \in DOMAIN table_data : \A i \in (DOMAIN df) \ C6_Shown :
              /\ table_data[a].risk_score >= df[i].risk_score
              /\ (table_data[a].risk_score = df[i].risk_score
                    => Ordinal(table_data[a]) < Ordinal(df[i]))

C6_Witness ==
    /\ pc = "serving"
    /\ Len(df) > TopK
    /\ table_data[1].risk_score > table_data[TopK].risk_score
    /\ table_data[1] # df[1]
    /\ \E i \in (DOMAIN df) \ C6_Shown :
          df[i].risk_score = table_data[TopK].risk_score

(* C7: the daily series has one entry per distinct calendar date of the      *)
(* ledger, its per-day counts count every record once and sum to             *)
(* total_transactions, and fraud_rate is fraud_transactions /                *)
(* total_transactions * 100 (not a number exactly when the ledger is empty). *)
C7_Dates == {date_of(df[i].date) : i \in DOMAIN df}

C7_DailyConsistent ==
    pc \in {"trend", "dist", "layout", "serving"} =>
        /\ Len(daily_fraud) = Cardinality(C7_Dates)
        /\ {daily_fraud[k].date : k \in DOMAIN daily_fraud} = C7_Dates
        /\ \A k \in DOMAIN daily_fraud :
              daily_fraud[k].transaction_id =
                 Cardinality({i \in DOMAIN df : date_of(df[i].date) = daily_fraud[k].date})
        /\ SumSeq([k \in DOMAIN daily_fraud |-> daily_fraud[k].transaction_id])
              = total_transactions
        /\ total_transactions = Len(df)
        /\ IF total_transactions = 0 THEN IsNaN(fraud_rate)
           ELSE /\ fraud_rate.den # 0
                /\ fraud_rate.num * total_transactions
                     = fraud_transactions * 100 * fraud_rate.den

C7_Witness ==
    /\ pc = "serving"
    /\ fraud_transactions > 0
    /\ fraud_transactions < total_transactions
    /\ \E k \in DOMAIN daily_fraud :
          /\ daily_fraud[k].transaction_id >= 2
          /\ daily_fraud[k].is_fraud = 1

(* C8: the legitimate and the fraudulent collection hold every record's      *)
(* amount exactly once: sizes summing to N, no record in both, and the       *)
(* fraudulent one of size fraud_transactions.                                *)
C8_Labels(series) == {series[k].index : k \in DOMAIN series}

C8_Partition ==
    pc \in {"layout", "serving"} =>
        /\ Len(fig_dist.Legitimate) + Len(fig_dist.Fraudulent) = Len(df)
        /\ C8_Labels(fig_dist.Legitimate) \cap C8_Labels(fig_dist.Fraudulent) = {}
        /\ C8_Labels(fig_dist.Legitimate) \cup C8_Labels(fig_dist.Fraudulent)
              = 0 .. Len(df) - 1
        /\ Cardinality(C8_Labels(fig_dist.Legitimate)) = Len(fig_dist.Legitimate)
        /\ Cardinality(C8_Labels(fig_dist.Fraudulent)) = Len(fig_dist.Fraudulent)
        /\ \A k \in DOMAIN fig_dist.Legitimate :
              LET row == df[fig_dist.Legitimate[k].index + 1]
              IN  ~row.is_fraud /\ row.amount = fig_dist.Legitimate[k].amount
        /\ \A k \in DOMAIN fig_dist.Fraudulent :
              LET row == df[fig_dist.Fraudulent[k].index + 1]
              IN  row.is_fraud /\ row.amount = fig_dist.Fraudulent[k].amount
        /\ Len(fig_dist.Fraudulent) = fraud_transactions

C8_Witness ==
    /\ pc = "serving"
    /\ Len(fig_dist.Legitimate) >= 2
    /\ Len(fig_dist.Fraudulent) >= 1

(* C9: the ledger is generated once, before any aggregate exists, and no     *)
(* later step changes it: its size, the order of its records and every field *)
(* stay as generate_fraud_data returned them.                                *)
C9_LedgerImmutable ==
    [][/\ pc = "generate" => Fresh
       /\ pc # "generate" => df' = df /\ runs' = runs /\ Len(runs) <= 1
       /\ pc' = "serving" => df' = runs'[1].df]_vars

C9_Witness ==
    /\ pc = "serving"
    /\ Len(df) >= 2
    /\ table_data[1] # df[1]
    /\ Len(fig_dist.Fraudulent) >= 1
    /\ Len(daily_fraud) >= 2

(* C10: with n >= 1 every timestamp lies in [now - 30 days, now] for the     *)
(* generation time now, and the timestamps are non-decreasing in ledger      *)
(* order.                                                                    *)
C10_WindowAndOrder ==
    (Generated /\ n >= 1) =>
        \E now \in Last(runs).now1 .. Last(runs).now2 :
            /\ \A i \in DOMAIN df : now - Window <= df[i].date /\ df[i].date <= now
            /\ \A i \in 1 .. Len(df) - 1 : df[i].date <= df[i + 1].date

(* what the code does give: the window runs from the first clock reading     *)
(* less 30 days to the second reading, first and last record at its ends     *)
DatesBetweenReadings ==
    (Generated /\ n >= 1) =>
        /\ \A i \in DOMAIN df :
              Last(runs).now1 - Window <= df[i].date /\ df[i].date <= Last(runs).now2
        /\ \A i \in 1 .. Len(df) - 1 : df[i].date <= df[i + 1].date
        /\ df[1].date = Last(runs).now1 - Window
        /\ n >= 2 => df[n].date = Last(runs).now2

====
